---- MODULE Spec2Model ----
(***************************************************************************)
(* Signalerr: chat command router and media request lifecycle.             *)
(*                                                                         *)
(* State: the media_requests and users tables, the maintenance setting,    *)
(* the scheduler (running flag, pending one-shot jobs, the sweep job and   *)
(* the one-shot jobs in flight), the Signal receiver thread, and a clock   *)
(* in minutes.  A status poll is split where the code waits for Overseerr: *)
(* the step that reads the row and gets the answer, and the step that      *)
(* persists and notifies.  handle_message runs on the single receiver      *)
(* thread and is one step.  The variables last and sent hold what the step *)
(* just taken did when it handled an event (replies, calls, rows created)  *)
(* or persisted a poll (notifications); the program does not read them.    *)
(* The variable probe holds the arguments and the result of a function     *)
(* that is examined on its own (the quota, the season list).               *)
(* Columns of media_requests that no handler or poll reads back (title,    *)
(* year, media_id, media_type, is_4k, seasons_requested, updated_at) are    *)
(* left out of the rows, as are display_name and verbosity_level of users. *)
(***************************************************************************)
EXTENDS Integers, Sequences, FiniteSets, TLC

VARIABLES requests, users, maintenance, jobs, sweep, checks,
          is_running, scheduler_running, receiver, receiver_exit,
          now, last, sent, probe

vars == <<requests, users, maintenance, jobs, sweep, checks,
          is_running, scheduler_running, receiver, receiver_exit,
          now, last, sent, probe>>

(***************************************************************************)
(* Bounds of the model.                                                    *)
(***************************************************************************)
MaxReq == 2
MaxPolled == 1
MaxTime == 2
MaxOvId == 2
MaxRows == 2
MaxLimit == 2
MaxDay == 2
MaxQueryLen == 4
MaxSeasonNo == 4
MaxTotal == 6

(***************************************************************************)
(* Values.                                                                 *)
(***************************************************************************)
None == -1
NoErr == "none"

Truthy(x) == x # None /\ x # 0

RequestStatus == {"pending", "approved", "downloading", "completed", "failed", "declined"}

RequestTimeoutMinutes == 2

RecheckMinutes == 5

\* The delays schedule_request_check is called with.
Delays == {RequestTimeoutMinutes, RecheckMinutes}

AdminPhone == "+1"
UserPhone == "+2"
StrangerPhone == "+9"
Senders == {AdminPhone, UserPhone, StrangerPhone}

OvIds == 1..MaxOvId
JobIds == 1..MaxReq

\* Answers of GET /request/<id>: None when the call fails, else the code.
ExtAnswers == {None} \cup (1..6)

(***************************************************************************)
(* db/models.py, db/crud.py                                                *)
(***************************************************************************)
NewRequest(user_id, t) ==
    [user_id |-> user_id, status |-> "pending",
     overseerr_request_id |-> None, created_at |-> t, completed_at |-> None,
     error_message |-> NoErr]

create_request(reqs, user_id, t) ==
    Append(reqs, NewRequest(user_id, t))

\* A users row with the column defaults of the User model.
DefaultLimit == 10

NewUser(is_admin, t) ==
    [is_admin |-> is_admin, is_active |-> TRUE, auto_notifications |-> TRUE,
     daily_request_limit |-> DefaultLimit, last_active |-> t]

create_user(us, phone_number, t) == us @@ (phone_number :> NewUser(FALSE, t))

\* update_user without further columns, as handle_message calls it.
update_user(us, phone_number, t) == [us EXCEPT ![phone_number].last_active = t]

\* The soft delete.
delete_user(us, phone_number) == [us EXCEPT ![phone_number].is_active = FALSE]

\* A query that selects the pending rows only.
get_pending_requests_pending_only(reqs) ==
    {i \in DOMAIN reqs : reqs[i].status = "pending"}

get_pending_requests(reqs) ==
    {i \in DOMAIN reqs : reqs[i].status \in {"pending", "approved", "downloading"}}

\* Variants of update_request_status: one that forgets the error message, one
\* that assigns the correlation id whatever it is given, one that never
\* stores it.
update_request_status_without_error(reqs, request_id, status, overseerr_request_id, error_message, t) ==
    IF request_id \notin DOMAIN reqs THEN reqs
    ELSE [reqs EXCEPT ![request_id] =
            [@ EXCEPT !.status = status,
                      !.overseerr_request_id =
                          IF Truthy(overseerr_request_id) THEN overseerr_request_id ELSE @,
                      !.completed_at = IF status = "completed" THEN t ELSE @]]

update_request_status_assigning_id(reqs, request_id, status, overseerr_request_id, error_message, t) ==
    IF request_id \notin DOMAIN reqs THEN reqs
    ELSE [reqs EXCEPT ![request_id] =
            [@ EXCEPT !.status = status,
                      !.overseerr_request_id = overseerr_request_id,
                      !.error_message =
                          IF error_message # NoErr THEN error_message ELSE @,
                      !.completed_at = IF status = "completed" THEN t ELSE @]]

update_request_status_dropping_id(reqs, request_id, status, overseerr_request_id, error_message, t) ==
    IF request_id \notin DOMAIN reqs THEN reqs
    ELSE [reqs EXCEPT ![request_id] =
            [@ EXCEPT !.status = status,
                      !.error_message =
                          IF error_message # NoErr THEN error_message ELSE @,
                      !.completed_at = IF status = "completed" THEN t ELSE @]]

update_request_status(reqs, request_id, status, overseerr_request_id, error_message, t) ==
    IF request_id \notin DOMAIN reqs THEN reqs
    ELSE [reqs EXCEPT ![request_id] =
            [@ EXCEPT !.status = status,
                      !.overseerr_request_id =
                          IF Truthy(overseerr_request_id) THEN overseerr_request_id ELSE @,
                      !.error_message =
                          IF error_message # NoErr THEN error_message ELSE @,
                      !.completed_at = IF status = "completed" THEN t ELSE @]]

\* The calendar day (UTC) of a time in minutes.
MinutesPerDay == 1440

Date(t) == t \div MinutesPerDay

\* A count over the last 24 hours instead of the calendar day.
get_daily_request_count_last_24h(reqs, phone, t) ==
    Cardinality({i \in DOMAIN reqs :
                   reqs[i].user_id = phone /\ t - reqs[i].created_at < MinutesPerDay})

get_daily_request_count(reqs, phone, t) ==
    Cardinality({i \in DOMAIN reqs :
                   reqs[i].user_id = phone /\ Date(reqs[i].created_at) = Date(t)})

\* A user that may always request.
can_make_request_always(reqs, us, phone, t) == TRUE

can_make_request(reqs, us, phone, t) ==
    get_daily_request_count(reqs, phone, t) < us[phone].daily_request_limit

(***************************************************************************)
(* bot/bot.py: status polling                                              *)
(***************************************************************************)
map_overseerr_status(overseerr_status) ==
    CASE overseerr_status = 1 -> "pending"
      [] overseerr_status = 2 -> "approved"
      [] overseerr_status = 3 -> "declined"
      [] overseerr_status = 4 -> "downloading"
      [] overseerr_status = 5 -> "completed"
      [] OTHER -> "pending"

\* The job store holds, for each job id check_request_<request_id>, the due
\* times of the jobs under that id.  add_job(..., replace_existing=True)
\* puts the new job in the place of the ones under its id.  Two variants:
\* a store that adds the job next to them, and one that keeps the later of
\* the old and the new due time.
schedule_request_check_stacking(js, request_id, delay_minutes, t) ==
    [js EXCEPT ![request_id] = @ \cup {t + delay_minutes}]

schedule_request_check_keeping_later(js, request_id, delay_minutes, t) ==
    [js EXCEPT ![request_id] =
        IF \E due \in @ : due > t + delay_minutes THEN @ ELSE {t + delay_minutes}]

schedule_request_check(js, request_id, delay_minutes, t) ==
    [js EXCEPT ![request_id] = {t + delay_minutes}]

\* A sweep that skips no row.
sweep_skips_never(row, t) == FALSE

\* The sweep skips a pending row younger than request_timeout_minutes.
sweep_skips(row, t) ==
    row.status = "pending" /\ t - row.created_at < RequestTimeoutMinutes

\* A sweep that notifies every user.
sweep_notifies_everyone(u) == TRUE

\* The sweep notifies only users with auto_notifications.
sweep_notifies(u) == u.auto_notifications

\* check_single_request notifies whenever the user exists.
check_notifies(u) == TRUE

NoCur == [id |-> 0, seen |-> "none", new |-> "none"]

\* In the place of the new status while the call to Overseerr has not
\* returned: session.request is called without a timeout.
Hanging == "hanging"

\* What a poll step did: by is "sweep" or "check", step is "poll" (Overseerr
\* was asked and gave answer) or "write" (status was persisted and count
\* notifications were sent to the owner).
NoSent == [by |-> "none", step |-> "none", id |-> 0, answer |-> None,
           status |-> "none", count |-> 0, due |-> None, had |-> {}]

Polled(by, id, answer) ==
    [by |-> by, step |-> "poll", id |-> id, answer |-> answer,
     status |-> map_overseerr_status(answer), count |-> 0, due |-> None, had |-> {}]

Wrote(by, id, status, count) ==
    [by |-> by, step |-> "write", id |-> id, answer |-> None,
     status |-> status, count |-> count, due |-> None, had |-> {}]

\* The store raised when the new status of id was to be persisted.
Failed(by, id, status) ==
    [by |-> by, step |-> "error", id |-> id, answer |-> None,
     status |-> status, count |-> 0, due |-> None, had |-> {}]

\* The scheduler was shut down with count one-shot checks pending.
Cancelled(count) ==
    [by |-> "stop", step |-> "cancel", id |-> 0, answer |-> None,
     status |-> "none", count |-> count, due |-> None, had |-> {}]

\* schedule_request_check was called for id and asked for a check at due,
\* while the checks due at the times in had were pending for id.
Scheduled(id, due, had) ==
    [by |-> "caller", step |-> "schedule", id |-> id, answer |-> None,
     status |-> "none", count |-> 0, due |-> due, had |-> had]

(***************************************************************************)
(* Inbound text.  The first word is a lower-case stem, possibly written    *)
(* with capitals, with a leading slash, or with further letters after the  *)
(* stem; args are the remaining words.                                     *)
(***************************************************************************)
Word(stem) == [slash |-> FALSE, caps |-> FALSE, stem |-> stem, suffix |-> FALSE]

Text(word, args) == [empty |-> FALSE, word |-> word, args |-> args]

EmptyText == [empty |-> TRUE, word |-> Word(""), args |-> <<>>]

Texts ==
    { EmptyText,
      Text(Word("request"), <<"matrix">>),
      Text([Word("request") EXCEPT !.slash = TRUE, !.caps = TRUE], <<"matrix">>),
      Text(Word("request"), <<>>),
      Text(Word("matrix"), <<>>),
      Text([Word("request") EXCEPT !.suffix = TRUE], <<"matrix">>),
      Text([Word("foo") EXCEPT !.slash = TRUE], <<>>),
      Text(Word("help"), <<>>),
      Text(Word("settings"), <<"notifications", "off">>),
      Text(Word("settings"), <<"notifications", "on">>),
      Text(Word("stats"), <<>>) }

\* Texts that reach process_media_request when the sender may request.
RequestTexts == {Text(Word("request"), <<"matrix">>), Text(Word("matrix"), <<>>)}

Events == [sender : Senders, text : Texts]

\* What the collaborators answer while one event is handled: the first
\* catalog match, whether it is already available, the result of the
\* submission and the id it returns; and the store call that raises, if any.
FaultSites == {"none", "log", "touch", "create", "update"}

Input(fault, match, avail, sub, subId) ==
    [fault |-> fault, match |-> match, avail |-> avail, sub |-> sub, subId |-> subId]

Outcomes ==
    {Input("none", "none", FALSE, "error", None)}
    \cup {Input("none", m, TRUE, "error", None) : m \in {"movie", "tv"}}
    \cup {Input("create", "movie", FALSE, "error", None)}
    \cup {Input(f, "movie", FALSE, "ok", i) : f \in {"none", "update"}, i \in OvIds}
    \cup {Input("none", "tv", FALSE, "ok", i) : i \in OvIds}
    \cup {Input(f, "movie", FALSE, r, None) : f \in {"none", "update"}, r \in {"conflict", "error"}}

Scenario(sender, text, in) == [e |-> [sender |-> sender, text |-> text], in |-> in]

\* Every sender with every text; a store that raises; the standard user,
\* whose quota is one request a day, with every outcome of a request; and
\* the admin with a submission that succeeds.
RouterScenarios ==
    {Scenario(s, t, Input("none", "none", FALSE, "error", None)) : s \in Senders, t \in Texts}
    \cup {Scenario(s, Text(Word("help"), <<>>), Input(f, "none", FALSE, "error", None)) :
            s \in Senders, f \in {"log", "touch"}}
    \cup {Scenario(UserPhone, t, in) : t \in RequestTexts, in \in Outcomes}
    \cup {Scenario(AdminPhone, Text(Word("matrix"), <<>>), Input("none", "movie", FALSE, "ok", 1))}

\* Texts with the verbs of the admin commands, and a request and a help to
\* compare with.
AdminTexts ==
    { Text(Word("adduser"), <<StrangerPhone>>),
      Text([Word("adduser") EXCEPT !.slash = TRUE, !.caps = TRUE], <<StrangerPhone>>),
      Text(Word("adduser"), <<>>),
      Text(Word("removeuser"), <<UserPhone>>),
      Text(Word("removeuser"), <<StrangerPhone>>),
      Text(Word("stats"), <<>>),
      Text(Word("help"), <<>>),
      Text(Word("request"), <<"matrix">>) }

AdminScenarios ==
    {Scenario(s, t, Input("none", "movie", FALSE, "ok", 1)) : s \in Senders, t \in AdminTexts}
    \cup {Scenario(UserPhone, Text(Word("adduser"), <<StrangerPhone>>),
                   Input(f, "none", FALSE, "error", None)) : f \in {"log", "touch"}}

\* Submissions of the admin, whose quota is beyond the table size.
SweepScenarios ==
    {Scenario(AdminPhone, Text(Word("request"), <<"matrix">>), Input("none", "movie", FALSE, r, None)) :
        r \in {"conflict", "error"}}
    \cup {Scenario(AdminPhone, Text(Word("request"), <<"matrix">>), Input("none", "movie", FALSE, "ok", i)) :
            i \in OvIds}

\* The requests of SweepScenarios, and a request whose catalog search finds
\* nothing or raises.
CatalogScenarios ==
    SweepScenarios
    \cup {Scenario(AdminPhone, Text(Word("request"), <<"matrix">>), Input("none", m, FALSE, "error", None)) :
            m \in {"none", "error"}}

\* The requests of SweepScenarios, and a submission that Overseerr answers
\* with success and a body without an id: data.get('id') is None.
SubmitScenarios ==
    SweepScenarios
    \cup {Scenario(AdminPhone, Text(Word("request"), <<"matrix">>), Input("none", "movie", FALSE, "ok", None))}

\* Submissions that succeed.
HangScenarios ==
    {Scenario(AdminPhone, Text(Word("request"), <<"matrix">>), Input("none", "movie", FALSE, "ok", i)) :
        i \in OvIds}

\* A submission that succeeds, and the verbs whose handlers are named in
\* __init__ only, each naming request 1.
CancelTexts ==
    { Text(Word("request"), <<"matrix">>),
      Text(Word("help"), <<>>),
      Text(Word("cancel"), <<"1">>),
      Text(Word("approve"), <<"1">>),
      Text(Word("decline"), <<"1">>),
      Text(Word("broadcast"), <<"hello">>) }

CancelScenarios ==
    {Scenario(s, t, Input("none", "movie", FALSE, "ok", 1)) :
        s \in {AdminPhone, UserPhone}, t \in CancelTexts}

\* Texts whose first word is no registered verb: a title, words with a
\* slash, and words that go on after a standard or an admin verb.
NaturalTexts ==
    { Text(Word("matrix"), <<"reloaded">>),
      Text([Word("matrix") EXCEPT !.slash = TRUE], <<>>),
      Text([Word("matrix") EXCEPT !.caps = TRUE], <<>>),
      Text([Word("help") EXCEPT !.suffix = TRUE], <<"wanted">>),
      Text([Word("request") EXCEPT !.suffix = TRUE, !.caps = TRUE], <<"matrix">>),
      Text([Word("approve") EXCEPT !.suffix = TRUE], <<"matrix">>),
      Text([Word("stats") EXCEPT !.suffix = TRUE], <<>>),
      Text(Word("stats"), <<>>),
      Text(Word("help"), <<>>) }

NaturalScenarios ==
    {Scenario(s, t, in) :
        s \in {AdminPhone, UserPhone}, t \in NaturalTexts,
        in \in {Input("none", "none", FALSE, "error", None),
                Input("none", "movie", FALSE, "ok", 1)}}

PollScenarios ==
    {Scenario(AdminPhone, Text(Word("request"), <<"matrix">>), Input("none", "movie", FALSE, r, None)) :
        r \in {"conflict", "error"}}
    \cup {Scenario(AdminPhone, Text(Word("request"), <<"matrix">>), Input(f, "movie", FALSE, "ok", i)) :
            f \in {"none", "update"}, i \in OvIds}
    \cup {Scenario(AdminPhone, Text(Word("settings"), <<"notifications", v>>),
                   Input("none", "none", FALSE, "error", None)) : v \in {"on", "off"}}

(***************************************************************************)
(* bot/message_handler.py                                                  *)
(***************************************************************************)
Commands == {"help", "request", "status", "settings", "search", "myrequest",
             "myrequests", "cancel", "creategroup"}

AdminCommands == {"adduser", "removeuser", "listusers", "approve", "decline",
                  "broadcast", "stats"}

\* The methods that MessageHandler defines, and the method that __init__
\* names for each verb.  __init__ looks the methods up when it builds the
\* tables; the lookup of a method that is not defined raises
\* AttributeError, and the model, which describes the handlers verb by
\* verb, has that failure where the verb is dispatched.
DefinedHandlers ==
    {"handle_help", "handle_request", "handle_status", "handle_settings",
     "handle_search", "handle_my_requests", "handle_create_group",
     "handle_add_user", "handle_remove_user", "handle_list_users", "handle_stats"}

RegisteredHandler ==
    ("help" :> "handle_help") @@ ("request" :> "handle_request")
    @@ ("status" :> "handle_status") @@ ("settings" :> "handle_settings")
    @@ ("search" :> "handle_search") @@ ("myrequest" :> "handle_my_requests")
    @@ ("myrequests" :> "handle_my_requests") @@ ("cancel" :> "handle_cancel_request")
    @@ ("creategroup" :> "handle_create_group")
    @@ ("adduser" :> "handle_add_user") @@ ("removeuser" :> "handle_remove_user")
    @@ ("listusers" :> "handle_list_users") @@ ("approve" :> "handle_approve_request")
    @@ ("decline" :> "handle_decline_request") @@ ("broadcast" :> "handle_broadcast")
    @@ ("stats" :> "handle_stats")

HasHandler(command) == RegisteredHandler[command] \in DefinedHandlers

lower(word) == [word EXCEPT !.caps = FALSE]

lstrip_slash(word) == [word EXCEPT !.slash = FALSE]

\* The string a word is, as a key of the command tables.
Key(word) == IF word.slash \/ word.caps \/ word.suffix THEN "?" ELSE word.stem

parse_command(text) ==
    IF text.empty THEN <<"", <<>>>>
    ELSE <<Key(lstrip_slash(lower(text.word))), text.args>>

\* A reply goes to the conversation the event came from: the group of a
\* group message, else the recipient.
send_response(recipient, kind) == [to |-> recipient, kind |-> kind]

\* MessageHandler.schedule_status_check only logs.
schedule_status_check(js, request_id, t) == js

\* A client with one error text for every failure.
request_error_generic(sub) == "failed to request"

request_error(sub) ==
    IF sub = "conflict" THEN "already requested" ELSE "failed to request"

\* f"Failed to request '{title}': {error}"
failed_message(error) == "request failed: " \o error

NoEffect(reqs, us, js) ==
    [reqs |-> reqs, users |-> us, jobs |-> js, replies |-> <<>>, handler |-> "none",
     catalog |-> 0, fulfil |-> 0, created |-> {}, raised |-> "none", alert |-> FALSE,
     sub |-> "none", subId |-> None, quota |-> FALSE]

\* OverseerrAPI.search_media: the first result, "none" for an empty list.  When
\* the call to Overseerr raises ("error") the client logs and returns the
\* empty list.
search_media(in) == IF in.match = "error" THEN "none" ELSE in.match

\* OverseerrAPI.is_media_available for the first match; a client that never
\* finds a title available.
is_media_available_never(in) == FALSE

is_media_available(in) == in.avail

process_media_request(base, phone, in, t) ==
    IF ~can_make_request(base.reqs, base.users, phone, t)
    THEN [base EXCEPT !.replies = <<send_response(phone, "limit reached")>>]
    ELSE
    LET searching == <<send_response(phone, "searching")>>
        b1 == [base EXCEPT !.quota = TRUE, !.replies = searching, !.catalog = 1]
    IN
    IF search_media(in) = "none"
    THEN [b1 EXCEPT !.replies = Append(searching, send_response(phone, "no results"))]
    ELSE IF is_media_available(in)
    THEN [b1 EXCEPT !.catalog = 2,
                    !.replies = Append(searching, send_response(phone, "already available"))]
    ELSE IF in.fault = "create"
    THEN [b1 EXCEPT !.catalog = 2, !.raised = "create", !.alert = TRUE,
                    !.replies = Append(searching, send_response(phone, "try again"))]
    ELSE
    LET id == Len(base.reqs) + 1
        reqs1 == create_request(base.reqs, phone, t)
        b2 == [b1 EXCEPT !.catalog = 2, !.reqs = reqs1, !.created = {id},
                         !.fulfil = 1, !.sub = in.sub]
    IN
    IF in.sub = "ok"
    THEN IF in.fault = "update"
         THEN [b2 EXCEPT !.subId = in.subId, !.raised = "update", !.alert = TRUE,
                         !.replies = Append(searching, send_response(phone, "try again"))]
         ELSE [b2 EXCEPT !.subId = in.subId,
                         !.reqs = update_request_status(reqs1, id, "approved", in.subId, NoErr, t),
                         !.replies = Append(searching, send_response(phone, "confirmation")),
                         !.jobs = schedule_status_check(base.jobs, id, t)]
    ELSE IF in.fault = "update"
         THEN [b2 EXCEPT !.raised = "update", !.alert = TRUE,
                         !.replies = Append(searching, send_response(phone, "try again"))]
         ELSE [b2 EXCEPT !.reqs = update_request_status(reqs1, id, "failed", None,
                                                        request_error(in.sub), t),
                         !.replies = Append(searching, send_response(phone, failed_message(request_error(in.sub))))]

handle_request(base, phone, args, in, t) ==
    IF args = <<>>
    THEN [base EXCEPT !.replies = <<send_response(phone, "usage")>>]
    ELSE process_media_request(base, phone, in, t)

handle_natural_request(base, phone, text, in, t) ==
    IF text.word.slash \/ lower(text.word).stem \in Commands
    THEN [base EXCEPT !.replies = <<send_response(phone, "unknown command")>>]
    ELSE process_media_request(base, phone, in, t)

handle_settings(base, phone, args) ==
    IF args = <<>>
    THEN [base EXCEPT !.replies = <<send_response(phone, "settings")>>]
    ELSE IF args[1] = "notifications" /\ Len(args) > 1
    THEN IF args[2] \in {"on", "off"}
         THEN [base EXCEPT !.users[phone].auto_notifications = (args[2] = "on"),
                           !.replies = <<send_response(phone, "notifications set")>>]
         ELSE [base EXCEPT !.replies = <<send_response(phone, "use on or off")>>]
    ELSE [base EXCEPT !.replies = <<send_response(phone, "invalid setting")>>]

handle_add_user(base, phone, args, t) ==
    IF args = <<>>
    THEN [base EXCEPT !.replies = <<send_response(phone, "usage")>>]
    ELSE IF args[1] \in DOMAIN base.users
    THEN [base EXCEPT !.replies = <<send_response(phone, "already exists")>>]
    ELSE [base EXCEPT !.users = create_user(base.users, args[1], t),
                      !.replies = <<send_response(phone, "user added"),
                                    send_response(args[1], "welcome")>>]

handle_remove_user(base, phone, args) ==
    IF args = <<>>
    THEN [base EXCEPT !.replies = <<send_response(phone, "usage")>>]
    ELSE IF args[1] \notin DOMAIN base.users
    THEN [base EXCEPT !.replies = <<send_response(phone, "not found")>>]
    ELSE [base EXCEPT !.users = delete_user(base.users, args[1]),
                      !.replies = <<send_response(phone, "user removed")>>]

\* A dispatch that runs the admin commands for every user.
dispatch_unchecked(base, phone, text, in, t) ==
    LET parsed == parse_command(text)
        command == parsed[1]
        args == parsed[2]
    IN
    IF command \in Commands
    THEN LET b == [base EXCEPT !.handler = command] IN
         CASE command = "help" -> [b EXCEPT !.replies = <<send_response(phone, "help")>>]
           [] command = "request" -> handle_request(b, phone, args, in, t)
           [] command = "settings" -> handle_settings(b, phone, args)
           [] ~HasHandler(command) -> [base EXCEPT !.raised = "handler", !.alert = TRUE]
           [] OTHER -> b
    ELSE IF command \in AdminCommands
    THEN IF TRUE
         THEN LET b == [base EXCEPT !.handler = command] IN
              CASE command = "stats" -> [b EXCEPT !.replies = <<send_response(phone, "stats")>>]
                [] command = "adduser" -> handle_add_user(b, phone, args, t)
                [] command = "removeuser" -> handle_remove_user(b, phone, args)
                [] ~HasHandler(command) -> [base EXCEPT !.raised = "handler", !.alert = TRUE]
                [] OTHER -> b
         ELSE [base EXCEPT !.replies = <<send_response(phone, "permission denied")>>]
    ELSE handle_natural_request([base EXCEPT !.handler = "natural"], phone, text, in, t)

dispatch(base, phone, text, in, t) ==
    LET parsed == parse_command(text)
        command == parsed[1]
        args == parsed[2]
    IN
    IF command \in Commands
    THEN LET b == [base EXCEPT !.handler = command] IN
         CASE command = "help" -> [b EXCEPT !.replies = <<send_response(phone, "help")>>]
           [] command = "request" -> handle_request(b, phone, args, in, t)
           [] command = "settings" -> handle_settings(b, phone, args)
           [] ~HasHandler(command) -> [base EXCEPT !.raised = "handler", !.alert = TRUE]
           [] OTHER -> b
    ELSE IF command \in AdminCommands
    THEN IF base.users[phone].is_admin
         THEN LET b == [base EXCEPT !.handler = command] IN
              CASE command = "stats" -> [b EXCEPT !.replies = <<send_response(phone, "stats")>>]
                [] command = "adduser" -> handle_add_user(b, phone, args, t)
                [] command = "removeuser" -> handle_remove_user(b, phone, args)
                [] ~HasHandler(command) -> [base EXCEPT !.raised = "handler", !.alert = TRUE]
                [] OTHER -> b
         ELSE [base EXCEPT !.replies = <<send_response(phone, "permission denied")>>]
    ELSE handle_natural_request([base EXCEPT !.handler = "natural"], phone, text, in, t)

\* A router that registers an unknown sender as a standard user and goes on.
handle_message_registering(reqs, us, maint, js, e, in, t) ==
    LET known == IF e.sender \in DOMAIN us THEN us ELSE create_user(us, e.sender, t)
        base == NoEffect(reqs, known, js)
        touched == [base EXCEPT !.users = update_user(known, e.sender, t)]
    IN
    IF e.text.empty THEN NoEffect(reqs, us, js)
    ELSE IF in.fault = "log" THEN [NoEffect(reqs, us, js) EXCEPT !.raised = "log", !.alert = TRUE]
    ELSE IF in.fault = "touch" THEN [base EXCEPT !.raised = "touch", !.alert = TRUE]
    ELSE IF maint /\ ~known[e.sender].is_admin
    THEN [touched EXCEPT !.replies = <<send_response(e.sender, "maintenance")>>]
    ELSE dispatch(touched, e.sender, e.text, in, t)

\* A router that does not read the maintenance setting.
handle_message_ignoring_maintenance(reqs, us, maint, js, e, in, t) ==
    LET base == NoEffect(reqs, us, js) IN
    IF e.text.empty THEN base
    ELSE IF in.fault = "log" THEN [base EXCEPT !.raised = "log", !.alert = TRUE]
    ELSE IF e.sender \notin DOMAIN us
    THEN [base EXCEPT !.replies = <<send_response(e.sender, "not authorized")>>]
    ELSE IF in.fault = "touch" THEN [base EXCEPT !.raised = "touch", !.alert = TRUE]
    ELSE
    LET touched == [base EXCEPT !.users = update_user(us, e.sender, t)] IN
    IF FALSE
    THEN [touched EXCEPT !.replies = <<send_response(e.sender, "maintenance")>>]
    ELSE dispatch(touched, e.sender, e.text, in, t)

handle_message(reqs, us, maint, js, e, in, t) ==
    LET base == NoEffect(reqs, us, js) IN
    IF e.text.empty THEN base
    ELSE IF in.fault = "log" THEN [base EXCEPT !.raised = "log", !.alert = TRUE]
    ELSE IF e.sender \notin DOMAIN us
    THEN [base EXCEPT !.replies = <<send_response(e.sender, "not authorized")>>]
    ELSE IF in.fault = "touch" THEN [base EXCEPT !.raised = "touch", !.alert = TRUE]
    ELSE
    LET touched == [base EXCEPT !.users = update_user(us, e.sender, t)] IN
    IF maint /\ ~us[e.sender].is_admin
    THEN [touched EXCEPT !.replies = <<send_response(e.sender, "maintenance")>>]
    ELSE dispatch(touched, e.sender, e.text, in, t)

(***************************************************************************)
(* bot/signal_client.py: the receiver thread after its handlers were       *)
(* called for one message; raised names the store call that raised while   *)
(* the message was handled ("none" when none did).  Each handler call is   *)
(* inside its own try/except; receiver_stopped_by_handlers is a loop       *)
(* without it.                                                             *)
(***************************************************************************)
receiver_stopped_by_handlers(raised) == IF raised = "none" THEN "running" ELSE "exited"

receiver_after_handlers(raised) == "running"

NoLast ==
    [known |-> FALSE, empty |-> TRUE, replies |-> <<>>,
     handler |-> "none", catalog |-> 0, fulfil |-> 0, created |-> {}, raised |-> "none",
     alert |-> FALSE, sub |-> "none", subId |-> None, quota |-> FALSE,
     match |-> "none", avail |-> FALSE, added |-> 0, sender |-> "", verb |-> "",
     word |-> Word(""), search |-> "none", handled |-> FALSE]

\* A step that neither handles an event nor persists a poll.
Quiet == last' = NoLast /\ sent' = NoSent /\ probe' = probe

NoProbe == [kind |-> "none"]

\* The state after construction, but for probe.
Boot ==
    /\ requests = <<>>
    /\ users = (AdminPhone :> NewUser(TRUE, 0))
            @@ (UserPhone :> [NewUser(FALSE, 0) EXCEPT !.daily_request_limit = 1])
    /\ maintenance = FALSE
    /\ jobs = [i \in JobIds |-> {}]
    /\ sweep = [todo |-> {}, expired |-> FALSE, cur |-> NoCur]
    /\ checks = [i \in JobIds |-> NoCur]
    /\ is_running = FALSE
    /\ scheduler_running = FALSE
    /\ receiver = "idle"
    /\ receiver_exit = "none"
    /\ now = 0
    /\ last = NoLast
    /\ sent = NoSent

Init == Boot /\ probe = NoProbe

(***************************************************************************)
(* SignalerrBot.start and stop                                             *)
(***************************************************************************)
start ==
    /\ ~is_running
    /\ ~scheduler_running
    /\ scheduler_running' = TRUE
    /\ \E listening \in BOOLEAN :
         IF listening
         THEN /\ receiver' = "running"
              /\ receiver_exit' = "none"
              /\ is_running' = TRUE
         ELSE UNCHANGED <<receiver, receiver_exit, is_running>>
    /\ Quiet
    /\ UNCHANGED <<requests, users, maintenance, jobs, sweep, checks, now>>

\* A stop that leaves the scheduler as it is.
stop_keeping_scheduler ==
    /\ is_running
    /\ receiver' = "idle"
    /\ receiver_exit' = "stop"
    /\ is_running' = FALSE
    /\ sent' = Cancelled(0)
    /\ last' = NoLast
    /\ UNCHANGED probe
    /\ UNCHANGED <<requests, users, maintenance, jobs, sweep, checks, now, scheduler_running>>

\* stop_listening ends the receiver; scheduler.shutdown(wait=False) stops
\* the scheduler without waiting for the jobs that are running, and its
\* in-memory job store drops the jobs that are pending.  The jobs in flight
\* (sweep, checks) go on in their threads.
stop ==
    /\ is_running
    /\ receiver' = "idle"
    /\ receiver_exit' = "stop"
    /\ scheduler_running' = FALSE
    /\ is_running' = FALSE
    /\ jobs' = [i \in JobIds |-> {}]
    /\ sent' = Cancelled(Cardinality({i \in JobIds : jobs[i] # {}}))
    /\ last' = NoLast
    /\ UNCHANGED probe
    /\ UNCHANGED <<requests, users, maintenance, sweep, checks, now>>

(***************************************************************************)
(* SignalClient._message_receiver_thread                                   *)
(***************************************************************************)
receiver_breaks ==
    /\ receiver = "running"
    /\ \E cause \in {"daemon died", "read error", "bad envelope"} :
         /\ receiver' = "exited"
         /\ receiver_exit' = cause
    /\ Quiet
    /\ UNCHANGED <<requests, users, maintenance, jobs, sweep, checks,
                   is_running, scheduler_running, now>>

receive_one(sc, cap) ==
    LET e == sc.e
        in == sc.in
        eff == handle_message(requests, users, maintenance, jobs, e, in, now)
    IN
    /\ Len(eff.reqs) <= cap
    /\ requests' = eff.reqs
    /\ users' = eff.users
    /\ jobs' = eff.jobs
    /\ receiver' = receiver_after_handlers(eff.raised)
    /\ receiver_exit' = IF receiver' = "running" THEN receiver_exit ELSE "handler error"
    /\ last' = [known |-> e.sender \in DOMAIN users, empty |-> e.text.empty,
                replies |-> eff.replies, handler |-> eff.handler,
                catalog |-> eff.catalog, fulfil |-> eff.fulfil,
                created |-> eff.created, raised |-> eff.raised, alert |-> eff.alert,
                sub |-> eff.sub, subId |-> eff.subId, quota |-> eff.quota,
                match |-> IF eff.catalog >= 1 THEN search_media(in) ELSE "none",
                search |-> IF eff.catalog >= 1 THEN in.match ELSE "none",
                avail |-> IF eff.catalog >= 2 THEN in.avail ELSE FALSE,
                added |-> Len(eff.reqs) - Len(requests), sender |-> e.sender,
                verb |-> parse_command(e.text)[1], word |-> e.text.word, handled |-> TRUE]
    /\ sent' = NoSent
    /\ UNCHANGED probe

receive_from(scenarios, cap) ==
    /\ receiver = "running"
    /\ \E sc \in scenarios : receive_one(sc, cap)
    /\ UNCHANGED <<maintenance, sweep, checks, is_running, scheduler_running, now>>

receive == receive_from(RouterScenarios, MaxReq)

receive_request == receive_from(PollScenarios, MaxPolled)

receive_admin == receive_from(AdminScenarios, MaxPolled)

receive_submission == receive_from(SweepScenarios, MaxReq)

receive_one_submission == receive_from(SweepScenarios, MaxPolled)

receive_cancel == receive_from(CancelScenarios, MaxPolled)

receive_natural == receive_from(NaturalScenarios, MaxPolled)

receive_catalog == receive_from(CatalogScenarios, MaxReq)

receive_submitted == receive_from(SubmitScenarios, MaxReq)

receive_approved == receive_from(HangScenarios, MaxReq)

receive_one_approved == receive_from(HangScenarios, MaxPolled)

(***************************************************************************)
(* Environment: the clock, and the maintenance_mode setting written by the *)
(* web console.                                                            *)
(***************************************************************************)
tick ==
    /\ now < MaxTime
    /\ now' = now + 1
    /\ Quiet
    /\ UNCHANGED <<requests, users, maintenance, jobs, sweep, checks,
                   is_running, scheduler_running, receiver, receiver_exit>>

set_maintenance ==
    /\ maintenance' = ~maintenance
    /\ Quiet
    /\ UNCHANGED <<requests, users, jobs, sweep, checks,
                   is_running, scheduler_running, receiver, receiver_exit, now>>

(***************************************************************************)
(* SignalerrBot.check_request_statuses: the sweep                          *)
(***************************************************************************)
SweepIdle == sweep.todo = {} /\ sweep.cur = NoCur

\* The row the loop body sees: the one loaded by get_pending_requests until
\* a commit in this job expires the loaded rows, the stored one after.
sweep_row(x) == IF sweep.expired THEN requests[x.id] ELSE x.row

check_request_statuses ==
    /\ scheduler_running
    /\ SweepIdle
    /\ get_pending_requests(requests) # {}
    /\ sweep' = [todo |-> {[id |-> i, row |-> requests[i]] : i \in get_pending_requests(requests)},
                 expired |-> FALSE, cur |-> NoCur]
    /\ Quiet
    /\ UNCHANGED <<requests, users, maintenance, jobs, checks,
                   is_running, scheduler_running, receiver, receiver_exit, now>>

sweep_poll ==
    /\ sweep.cur = NoCur
    /\ \E x \in sweep.todo, answer \in ExtAnswers :
         LET row == sweep_row(x)
             new_status == map_overseerr_status(answer)
         IN
         IF sweep_skips(row, now) \/ ~Truthy(row.overseerr_request_id)
         THEN /\ answer = None
              /\ sweep' = [sweep EXCEPT !.todo = @ \ {x}]
              /\ sent' = NoSent
         ELSE /\ sent' = Polled("sweep", x.id, answer)
              /\ IF answer = None \/ new_status = row.status
                 THEN sweep' = [sweep EXCEPT !.todo = @ \ {x}]
                 ELSE sweep' = [sweep EXCEPT !.todo = @ \ {x},
                                             !.cur = [id |-> x.id, seen |-> row.status,
                                                      new |-> new_status]]
    /\ last' = NoLast
    /\ UNCHANGED probe
    /\ UNCHANGED <<requests, users, maintenance, jobs, checks,
                   is_running, scheduler_running, receiver, receiver_exit, now>>

\* The status query of the sweep does not return: the job stays in the call.
sweep_poll_hangs ==
    /\ sweep.cur = NoCur
    /\ \E x \in sweep.todo :
         LET row == sweep_row(x) IN
         /\ ~sweep_skips(row, now)
         /\ Truthy(row.overseerr_request_id)
         /\ sweep' = [sweep EXCEPT !.todo = @ \ {x},
                                   !.cur = [id |-> x.id, seen |-> row.status, new |-> Hanging]]
    /\ Quiet
    /\ UNCHANGED <<requests, users, maintenance, jobs, checks,
                   is_running, scheduler_running, receiver, receiver_exit, now>>

sweep_write ==
    /\ sweep.cur # NoCur
    /\ sweep.cur.new # Hanging
    /\ LET c == sweep.cur
           user == users[requests[c.id].user_id]
       IN
       /\ requests' = update_request_status(requests, c.id, c.new, None, NoErr, now)
       /\ sent' = Wrote("sweep", c.id, c.new, IF sweep_notifies(user) THEN 1 ELSE 0)
       /\ sweep' = [sweep EXCEPT !.cur = NoCur, !.expired = TRUE]
    /\ last' = NoLast
    /\ UNCHANGED probe
    /\ UNCHANGED <<users, maintenance, jobs, checks,
                   is_running, scheduler_running, receiver, receiver_exit, now>>

\* What is left of the sweep when the loop body raised: with the try/except
\* around the body the loop goes on; a loop without it would end.
after_request_error_aborting(todo) == {}

after_request_error(todo) == todo

\* update_request_status raises: the store rolls back, the except clause of
\* the loop body logs and the loop goes on.
sweep_write_fails ==
    /\ sweep.cur # NoCur
    /\ sweep.cur.new # Hanging
    /\ sent' = Failed("sweep", sweep.cur.id, sweep.cur.new)
    /\ sweep' = [sweep EXCEPT !.cur = NoCur, !.expired = TRUE,
                              !.todo = after_request_error(@)]
    /\ last' = NoLast
    /\ UNCHANGED probe
    /\ UNCHANGED <<requests, users, maintenance, jobs, checks,
                   is_running, scheduler_running, receiver, receiver_exit, now>>

(***************************************************************************)
(* SignalerrBot.schedule_request_check and check_single_request: the       *)
(* one-shot check.  schedule_request_check is the bot's entry point for a  *)
(* first check; MessageHandler.schedule_status_check does not call it, so  *)
(* request_check stands for a caller of the bot that asks for a check of a *)
(* stored request with the default delay.  check_single_request calls it   *)
(* again with RecheckMinutes.                                              *)
(***************************************************************************)
request_check_with(delays) ==
    /\ \E request_id \in DOMAIN requests, delay_minutes \in delays :
         /\ jobs' = schedule_request_check(jobs, request_id, delay_minutes, now)
         /\ sent' = Scheduled(request_id, now + delay_minutes, jobs[request_id])
    /\ last' = NoLast
    /\ UNCHANGED probe
    /\ UNCHANGED <<requests, users, maintenance, sweep, checks,
                   is_running, scheduler_running, receiver, receiver_exit, now>>

\* A call with the default delay (delay_minutes is None).
request_check == request_check_with({RequestTimeoutMinutes})

\* A call with either delay the code uses.
request_check_any == request_check_with(Delays)

check_single_request ==
    /\ scheduler_running
    /\ \E request_id \in JobIds, answer \in ExtAnswers :
         /\ \E due \in jobs[request_id] : due <= now
         /\ checks[request_id] = NoCur
         /\ LET due == CHOOSE d \in jobs[request_id] : \A o \in jobs[request_id] : d <= o
                fired == [jobs EXCEPT ![request_id] = @ \ {due}]
            IN
            IF request_id \notin DOMAIN requests
            THEN /\ answer = None
                 /\ jobs' = fired
                 /\ sent' = NoSent
                 /\ UNCHANGED checks
            ELSE
            LET row == requests[request_id]
                new_status == map_overseerr_status(answer)
            IN
            IF ~Truthy(row.overseerr_request_id)
            THEN /\ answer = None
                 /\ jobs' = fired
                 /\ sent' = NoSent
                 /\ UNCHANGED checks
            ELSE /\ sent' = Polled("check", request_id, answer)
                 /\ IF answer = None
                    THEN /\ jobs' = fired
                         /\ UNCHANGED checks
                    ELSE IF new_status # row.status
                    THEN /\ jobs' = fired
                         /\ checks' = [checks EXCEPT ![request_id] =
                                         [id |-> request_id, seen |-> row.status,
                                          new |-> new_status]]
                    ELSE /\ jobs' = IF new_status \in {"approved", "downloading"}
                                    THEN schedule_request_check(fired, request_id,
                                                                RecheckMinutes, now)
                                    ELSE fired
                         /\ UNCHANGED checks
    /\ last' = NoLast
    /\ UNCHANGED probe
    /\ UNCHANGED <<requests, users, maintenance, sweep,
                   is_running, scheduler_running, receiver, receiver_exit, now>>

check_write ==
    /\ \E request_id \in JobIds :
         /\ checks[request_id] # NoCur
         /\ LET c == checks[request_id]
                user == users[requests[request_id].user_id]
            IN
            /\ requests' = update_request_status(requests, request_id, c.new, None, NoErr, now)
            /\ sent' = Wrote("check", request_id, c.new, IF check_notifies(user) THEN 1 ELSE 0)
            /\ jobs' = IF c.new \in {"approved", "downloading"}
                       THEN schedule_request_check(jobs, request_id, RecheckMinutes, now)
                       ELSE jobs
            /\ checks' = [checks EXCEPT ![request_id] = NoCur]
    /\ last' = NoLast
    /\ UNCHANGED probe
    /\ UNCHANGED <<users, maintenance, sweep,
                   is_running, scheduler_running, receiver, receiver_exit, now>>

(***************************************************************************)
(* Specifications.  Spec is the whole program.  SpecRouter is the          *)
(* ingestion side alone (no scheduler job runs); SpecPoll is the request   *)
(* lifecycle: submissions by one requester against the sweep and the       *)
(* one-shot checks.                                                        *)
(***************************************************************************)
Next ==
    \/ start
    \/ stop
    \/ receiver_breaks
    \/ receive
    \/ tick
    \/ set_maintenance
    \/ check_request_statuses
    \/ sweep_poll
    \/ sweep_write
    \/ request_check
    \/ request_check_any
    \/ check_single_request
    \/ check_write
    \/ sweep_write_fails
    \/ receive_admin
    \/ receive_submission
    \/ receive_one_submission
    \/ receive_cancel
    \/ receive_natural
    \/ receive_catalog
    \/ receive_approved
    \/ sweep_poll_hangs
    \/ receive_one_approved
    \/ receive_submitted

Spec == Init /\ [][Next]_vars

NextRouter ==
    \/ start
    \/ stop
    \/ receiver_breaks
    \/ receive
    \/ set_maintenance

SpecRouter == Init /\ [][NextRouter]_vars

NextPoll ==
    \/ start
    \/ receive_request
    \/ tick
    \/ check_request_statuses
    \/ sweep_poll
    \/ sweep_write
    \/ request_check
    \/ check_single_request
    \/ check_write

SpecPoll == Init /\ [][NextPoll]_vars

\* The one-shot checks alone, scheduled with either delay.
NextSched ==
    \/ start
    \/ receive_request
    \/ tick
    \/ request_check_any
    \/ check_single_request
    \/ check_write

SpecSched == Init /\ [][NextSched]_vars

NextSweep ==
    \/ start
    \/ receive_submission
    \/ check_request_statuses
    \/ sweep_poll
    \/ sweep_write
    \/ sweep_write_fails

SpecSweep == Init /\ [][NextSweep]_vars

NextCatalog ==
    \/ start
    \/ receive_catalog
    \/ check_request_statuses
    \/ sweep_poll
    \/ sweep_write
    \/ sweep_write_fails

SpecCatalog == Init /\ [][NextCatalog]_vars

\* The sweep with status queries that may not return, under the fairness of
\* the scheduler: the interval trigger starts a sweep when none is running
\* (max_instances is 1), a running sweep takes its next step, and time
\* passes.
NextHang ==
    \/ start
    \/ receive_approved
    \/ tick
    \/ check_request_statuses
    \/ sweep_poll
    \/ sweep_poll_hangs
    \/ sweep_write

SchedulerFairness ==
    /\ WF_vars(tick)
    /\ WF_vars(check_request_statuses)
    /\ WF_vars(sweep_poll)
    /\ WF_vars(sweep_write)

SpecHang == Init /\ [][NextHang]_vars /\ SchedulerFairness

\* Ingestion with the operator's stop, under the fairness of the receiver
\* thread: while it runs it reads the next event.  The main thread of start()
\* only sleeps while is_running, so it has no step of its own.
NextIngest ==
    \/ start
    \/ stop
    \/ receiver_breaks
    \/ receive
    \/ set_maintenance

SpecIngest == Init /\ [][NextIngest]_vars /\ WF_vars(receive)

\* The sweep against a fulfillment service with a status of its own.  probe
\* holds the external code of the requests submitted; it moves among pending
\* approval, approved and processing and ends in declined or available.  A
\* status query fails or returns that code.
External(code) == [kind |-> "external", code |-> code]

InitLive == Boot /\ \E code \in {1, 2, 4} : probe = External(code)

external_moves ==
    /\ probe.code \in {1, 2, 4}
    /\ \E code \in (1..5) \ {probe.code} : probe' = External(code)
    /\ last' = NoLast
    /\ sent' = NoSent
    /\ UNCHANGED <<requests, users, maintenance, jobs, sweep, checks,
                   is_running, scheduler_running, receiver, receiver_exit, now>>

sweep_poll_external ==
    /\ sweep_poll
    /\ sent'.step = "poll" => sent'.answer \in {None, probe.code}

\* The query of the sweep is answered.
sweep_poll_answered ==
    /\ sweep_poll_external
    /\ sent'.step = "poll"
    /\ sent'.answer # None

NextLive ==
    \/ start
    \/ receive_one_approved
    \/ tick
    \/ external_moves
    \/ check_request_statuses
    \/ sweep_poll_external
    \/ sweep_write

\* The interval trigger keeps starting sweeps, a running sweep takes its next
\* step, and a status query that is made again and again is answered.
SpecLive ==
    /\ InitLive
    /\ [][NextLive]_vars
    /\ WF_vars(tick)
    /\ WF_vars(check_request_statuses)
    /\ WF_vars(sweep_poll_external)
    /\ SF_vars(sweep_poll_answered)
    /\ WF_vars(sweep_write)

NextSubmit ==
    \/ start
    \/ receive_submitted
    \/ tick
    \/ check_request_statuses
    \/ sweep_poll
    \/ sweep_write

SpecSubmit == Init /\ [][NextSubmit]_vars

NextStop ==
    \/ start
    \/ stop
    \/ receive_one_submission
    \/ tick
    \/ check_request_statuses
    \/ sweep_poll
    \/ sweep_write
    \/ request_check
    \/ check_single_request
    \/ check_write

SpecStop == Init /\ [][NextStop]_vars

NextCancel ==
    \/ start
    \/ receive_cancel
    \/ set_maintenance
    \/ request_check
    \/ tick

SpecCancel == Init /\ [][NextCancel]_vars

NextNatural ==
    \/ start
    \/ receive_natural
    \/ set_maintenance
    \/ tick

SpecNatural == Init /\ [][NextNatural]_vars

NextAdmin ==
    \/ start
    \/ receive_admin
    \/ tick
    \/ set_maintenance

SpecAdmin == Init /\ [][NextAdmin]_vars

TypeOK ==
    /\ Len(requests) <= MaxReq
    /\ \A i \in DOMAIN requests : requests[i].status \in RequestStatus
    /\ maintenance \in BOOLEAN
    /\ now \in 0..MaxTime
    /\ receiver \in {"idle", "running", "exited"}

(***************************************************************************)
(* Request lifecycle (SpecPoll)                                            *)
(***************************************************************************)
Edges ==
    {<<"pending", "approved">>, <<"pending", "declined">>, <<"pending", "failed">>,
     <<"approved", "downloading">>, <<"downloading", "completed">>}

NonTerminal == {"pending", "approved", "downloading"}

HasId(i) == requests[i].overseerr_request_id # None

\* A sweep or a one-shot check has just persisted a status on request i.
PollWrote(i) == sent.step = "write" /\ sent.id = i

\* C1: every change of a stored status follows an edge of the graph
\* pending -> {approved, declined, failed}, approved -> downloading,
\* downloading -> completed; no change goes backward or leaves completed,
\* failed or declined.
C1_StatusFollowsGraph ==
    [][\A i \in DOMAIN requests :
         requests'[i].status # requests[i].status
            => <<requests[i].status, requests'[i].status>> \in Edges]_vars

\* C2: completed_at is set if and only if the status is completed.
C2_CompletedAtIffCompleted ==
    \A i \in DOMAIN requests :
        (requests[i].completed_at # None) <=> (requests[i].status = "completed")

\* C3 as stated: error_message is set if and only if the status is failed or
\* declined.
C3_ErrorIffFailedOrDeclined ==
    \A i \in DOMAIN requests :
        (requests[i].error_message # NoErr) <=> (requests[i].status \in {"failed", "declined"})

\* C3 amended: error_message is set if and only if the status is failed; a
\* request that a poll has just moved to declined has none.
C3_ErrorIffFailed ==
    /\ \A i \in DOMAIN requests :
         (requests[i].error_message # NoErr) <=> (requests[i].status = "failed")
    /\ \A i \in DOMAIN requests :
         PollWrote(i) /\ requests[i].status = "declined" => requests[i].error_message = NoErr

\* A poll has just moved a request to declined, and a failed submission is
\* the other case: here the declined one.
C3_Witness ==
    \E i \in DOMAIN requests :
        PollWrote(i) /\ sent.status = "declined" /\ requests[i].status = "declined"

\* C4: a request gets a correlation id only in the step that creates it, only
\* when the submission made in that step returned success, and the id stored
\* is the one returned; no later step (a poll, another submission) changes or
\* clears the id of a stored request, or gives one to a request without.
C4_CorrelationIdFromSubmission ==
    [][/\ \A i \in DOMAIN requests :
            requests'[i].overseerr_request_id = requests[i].overseerr_request_id
       /\ \A i \in (DOMAIN requests') \ (DOMAIN requests) :
            requests'[i].overseerr_request_id # None
               => /\ last'.sub = "ok"
                  /\ requests'[i].overseerr_request_id = last'.subId]_vars

\* A poll has persisted a new status on a request that has a correlation id.
C4_Witness ==
    \E i \in DOMAIN requests :
        PollWrote(i) /\ HasId(i) /\ requests[i].status = sent.status /\ sent.status # "approved"

\* C5: a writer persists only a status computed from the status that is
\* stored when it writes: the status a sweep or a one-shot check read before
\* asking Overseerr is still the stored one when it persists its result.
C5_WritersSerialized ==
    [][/\ (sweep.cur # NoCur /\ sweep'.cur = NoCur)
            => requests[sweep.cur.id].status = sweep.cur.seen
       /\ \A i \in JobIds :
            (checks[i] # NoCur /\ checks'[i] = NoCur)
               => requests[i].status = checks[i].seen]_vars

(***************************************************************************)
(* Ingestion and routing (SpecRouter)                                      *)
(***************************************************************************)
Count(replies, kind) == Cardinality({k \in DOMAIN replies : replies[k].kind = kind})

\* The receiver stops because the daemon or the read of its next event
\* failed, not because of what a handler did.
TransportFailures == {"daemon died", "read error", "bad envelope"}

\* C6: an exception raised while an event is handled (by the router, a
\* handler or the store) leaves the receiver loop running, so that the next
\* event is received; the loop is never ended by a handler, only by stop()
\* or by a failure to obtain the next event from the daemon.
C6_HandlerFaultKeepsLoop ==
    [][/\ (last'.handled /\ last'.raised # "none")
            => /\ receiver' = "running"
               /\ ENABLED receive
       /\ (receiver = "running" /\ receiver' # "running")
            => receiver_exit' \in {"stop"} \cup TransportFailures]_vars

\* The store raised while an event was handled, the admins were alerted and
\* the loop is still running.
C6_Witness ==
    last.handled /\ last.raised # "none" /\ last.alert /\ receiver = "running"

\* C7 as stated: an event from an unknown sender gets exactly one rejection
\* reply, creates no request, makes no catalog or fulfillment call and
\* reaches no handler, whatever its text.
C7_UnknownSenderOneRejection ==
    last.handled /\ ~last.known
        => /\ Len(last.replies) = 1
           /\ Count(last.replies, "not authorized") = 1
           /\ last.added = 0 /\ last.created = {}
           /\ last.catalog = 0 /\ last.fulfil = 0
           /\ last.handler = "none"

\* C7 amended: an event from an unknown sender creates no request, makes no
\* catalog or fulfillment call and reaches no handler; it gets exactly one
\* reply, the rejection, sent to the sender, when its text is not empty and
\* its log entry is stored, and no reply at all otherwise.
C7_UnknownSenderRejected ==
    last.handled /\ ~last.known
        => /\ last.added = 0 /\ last.created = {}
           /\ last.catalog = 0 /\ last.fulfil = 0
           /\ last.handler = "none"
           /\ IF ~last.empty /\ last.raised = "none"
              THEN last.replies = <<send_response(last.sender, "not authorized")>>
              ELSE last.replies = <<>>

\* An unknown sender sent a request for a title and got the rejection.
C7_Witness ==
    /\ last.handled /\ ~last.known /\ ~last.empty
    /\ last.replies = <<send_response(StrangerPhone, "not authorized")>>
    /\ requests = <<>>

\* A known user under quota asked for a title, the first match is a movie
\* that is not available, the submission succeeded and no store call raised.
SubmittedMovie ==
    /\ last.handled /\ last.known /\ last.quota
    /\ last.match = "movie" /\ ~last.avail
    /\ last.sub = "ok" /\ last.raised = "none"

\* C8: after such an event exactly one new request exists, it belongs to the
\* sender, its status is approved, it carries the id the submission
\* returned, and exactly one confirmation reply went to the sender.
C8_SubmissionApproved ==
    SubmittedMovie
        => /\ last.added = 1
           /\ last.created = {Len(requests)}
           /\ LET r == requests[Len(requests)] IN
                 /\ r.user_id = last.sender
                 /\ r.status = "approved"
                 /\ r.overseerr_request_id = last.subId
                 /\ last.subId \in OvIds
           /\ Count(last.replies, "confirmation") = 1
           /\ \A k \in DOMAIN last.replies : last.replies[k].to = last.sender

\* The standard user, whose quota is one request a day, has its request
\* approved with the id Overseerr returned.
C8_Witness ==
    /\ SubmittedMovie /\ last.sender = UserPhone
    /\ requests # <<>>
    /\ requests[Len(requests)].status = "approved"
    /\ requests[Len(requests)].overseerr_request_id = last.subId

\* C9: when the handling of an event ends with a successful submission, a
\* one-shot check for the new request is pending, due request_timeout_minutes
\* after the submission.
C9_CheckScheduledAfterSubmission ==
    last.handled /\ last.sub = "ok" /\ last.raised = "none"
        => \A i \in last.created : jobs[i] = {requests[i].created_at + RequestTimeoutMinutes}

(***************************************************************************)
(* The sweep (SpecPoll)                                                    *)
(***************************************************************************)
\* C10: when the sweep asks Overseerr about a stored non-terminal request
\* with a correlation id and the answer is 5 (available), the sweep goes on
\* to persist completed; and when it persists completed the stored status is
\* completed, completed_at is the time of the write, and the owner gets one
\* notification if auto_notifications is on, none if it is off.
C10_SweepCompletes ==
    [][/\ (/\ sent'.by = "sweep" /\ sent'.step = "poll" /\ sent'.answer = 5
           /\ requests[sent'.id].status \in NonTerminal)
            => /\ HasId(sent'.id)
               /\ sweep'.cur.id = sent'.id
               /\ sweep'.cur.new = "completed"
       /\ (sent'.by = "sweep" /\ sent'.step = "write" /\ sweep.cur.new = "completed")
            => /\ sent'.id = sweep.cur.id
               /\ requests'[sent'.id].status = "completed"
               /\ requests'[sent'.id].completed_at = now
               /\ sent'.count = IF users[requests[sent'.id].user_id].auto_notifications
                                THEN 1 ELSE 0]_vars

\* The sweep has completed a request whose owner switched notifications off,
\* and sent nothing.
C10_Witness ==
    /\ sent.by = "sweep" /\ sent.step = "write" /\ sent.status = "completed"
    /\ sent.id \in DOMAIN requests
    /\ requests[sent.id].status = "completed"
    /\ requests[sent.id].completed_at # None
    /\ ~users[requests[sent.id].user_id].auto_notifications
    /\ sent.count = 0

(***************************************************************************)
(* The one-shot checks (SpecSched)                                         *)
(***************************************************************************)
Later(dues) == CHOOSE d \in dues : \A o \in dues : o <= d

\* schedule_request_check has just been called for a request that had a
\* check pending and not yet due.
ScheduledAgain ==
    /\ sent.step = "schedule"
    /\ sent.had # {}
    /\ \A d \in sent.had : d > now

\* C11: the scheduler holds at most one pending one-shot check for each
\* request id, whatever calls of schedule_request_check and runs of
\* check_single_request came before.
C11_OneCheckPerRequest ==
    \A i \in JobIds : Cardinality(jobs[i]) <= 1

\* A second call for a request whose check was pending left one check.
C11_Witness ==
    ScheduledAgain /\ Cardinality(jobs[sent.id]) = 1

\* C12 as stated: after a second call for a request whose check is not yet
\* due, the check that remains is due at the later of the two due times.
C12_LaterDueTimeWins ==
    ScheduledAgain => jobs[sent.id] = {Later(sent.had \cup {sent.due})}

\* C12 amended: after a second call for a request whose check is not yet
\* due, the check that remains is due at the time the second call asked
\* for, be it earlier or later than the first.
C12_LatestCallWins ==
    ScheduledAgain => jobs[sent.id] = {sent.due}

\* The second call asked for an earlier time than the first and got it.
C12_Witness ==
    /\ ScheduledAgain
    /\ \A d \in sent.had : sent.due < d
    /\ jobs[sent.id] = {sent.due}

\* C13: when a one-shot check of a request with a correlation id finishes
\* (after its write, or without one when the status did not change or the
\* query failed) and no other call scheduled a check meanwhile, a check is
\* pending for the request if and only if its stored status is approved or
\* downloading.
C13_RescheduledIffInProgress ==
    [][\A i \in DOMAIN requests :
         (/\ sent'.by = "check" /\ sent'.id = i
          /\ checks'[i] = NoCur
          /\ \/ sent'.step = "poll" /\ Cardinality(jobs[i]) = 1
             \/ sent'.step = "write" /\ jobs[i] = {})
            => ((jobs'[i] # {}) <=> (requests'[i].status \in {"approved", "downloading"}))]_vars

(***************************************************************************)
(* The quota on its own (SpecQuota): User.can_make_request is asked for    *)
(* the standard user, for every table of requests created around midnight  *)
(* by the two users, every daily limit and every time of asking; then days *)
(* pass without new requests and it is asked again.                        *)
(***************************************************************************)
QuotaTimes ==
    UNION {{d * MinutesPerDay, d * MinutesPerDay + 1, (d + 1) * MinutesPerDay - 1} : d \in 0..1}

QuotaRows == {NewRequest(u, t) : u \in {AdminPhone, UserPhone}, t \in QuotaTimes}

QuotaTables == UNION {[1..n -> QuotaRows] : n \in 0..MaxRows}

QuotaProbe(reqs, limit, t) ==
    [kind |-> "quota", reqs |-> reqs, limit |-> limit, now |-> t,
     asked |-> FALSE, can |-> FALSE]

InitQuota ==
    /\ Boot
    /\ probe \in {QuotaProbe(reqs, limit, t) :
                    reqs \in QuotaTables, limit \in 0..MaxLimit, t \in QuotaTimes}
    /\ \A i \in DOMAIN probe.reqs : probe.reqs[i].created_at <= probe.now

OtherThanProbe ==
    <<requests, users, maintenance, jobs, sweep, checks,
      is_running, scheduler_running, receiver, receiver_exit, now, last, sent>>

quota_ask ==
    /\ probe.kind = "quota"
    /\ ~probe.asked
    /\ LET us == [users EXCEPT ![UserPhone].daily_request_limit = probe.limit] IN
       probe' = [probe EXCEPT !.asked = TRUE,
                              !.can = can_make_request(probe.reqs, us, UserPhone, probe.now)]
    /\ UNCHANGED OtherThanProbe

quota_day_passes ==
    /\ probe.kind = "quota"
    /\ probe.asked
    /\ Date(probe.now) < MaxDay
    /\ probe' = [probe EXCEPT !.asked = FALSE, !.now = (Date(@) + 1) * MinutesPerDay]
    /\ UNCHANGED OtherThanProbe

NextQuota ==
    \/ quota_ask
    \/ quota_day_passes

SpecQuota == InitQuota /\ [][NextQuota]_vars

\* The requests of the standard user created on the calendar day of t.
OwnToday(reqs, t) ==
    {i \in DOMAIN reqs :
        /\ reqs[i].user_id = UserPhone
        /\ \E d \in 0..MaxDay :
             /\ d * MinutesPerDay <= t /\ t < (d + 1) * MinutesPerDay
             /\ d * MinutesPerDay <= reqs[i].created_at
             /\ reqs[i].created_at < (d + 1) * MinutesPerDay}

\* C14: can_make_request is true exactly when the user owns fewer requests
\* created on the current calendar day than its daily limit; so it is false
\* with as many requests today as the limit, and true again on a later day.
C14_CanRequestIffUnderLimit ==
    probe.kind = "quota" /\ probe.asked
        => (probe.can <=> Cardinality(OwnToday(probe.reqs, probe.now)) < probe.limit)

\* The user made as many requests as its limit the day before, the last one
\* a minute before midnight; asked on the new day, it may request again.
C14_Witness ==
    /\ probe.kind = "quota" /\ probe.asked /\ probe.can
    /\ probe.limit > 0
    /\ probe.now = MinutesPerDay
    /\ Cardinality({i \in DOMAIN probe.reqs : probe.reqs[i].user_id = UserPhone}) = probe.limit
    /\ \E i \in DOMAIN probe.reqs :
         probe.reqs[i].user_id = UserPhone /\ probe.reqs[i].created_at = MinutesPerDay - 1

(***************************************************************************)
(* The quota in the router (SpecRouter)                                    *)
(***************************************************************************)
\* The requests owned by user u that were created on the calendar day of t.
CreatedToday(reqs, u, t) ==
    {i \in DOMAIN reqs :
        /\ reqs[i].user_id = u
        /\ reqs[i].created_at \div MinutesPerDay = t \div MinutesPerDay}

\* C15: no user owns more requests created on one day than its daily limit;
\* an event that arrives when the sender owns as many as its limit creates
\* no request and makes no catalog or fulfillment call.
C15_QuotaBoundsRequests ==
    [][/\ \A u \in DOMAIN users' :
            Cardinality(CreatedToday(requests', u, now')) <= users'[u].daily_request_limit
       /\ (/\ last'.handled /\ last'.known
           /\ Cardinality(CreatedToday(requests, last'.sender, now))
                >= users[last'.sender].daily_request_limit)
            => /\ requests' = requests
               /\ last'.added = 0 /\ last'.created = {}
               /\ last'.catalog = 0 /\ last'.fulfil = 0]_vars

\* The standard user, who has used its one request of the day, asked for
\* another title and was told that the limit is reached.
C15_Witness ==
    /\ last.handled /\ last.sender = UserPhone
    /\ last.handler \in {"request", "natural"}
    /\ last.replies = <<send_response(UserPhone, "limit reached")>>
    /\ Cardinality(CreatedToday(requests, UserPhone, now)) = users[UserPhone].daily_request_limit
    /\ last.catalog = 0

(***************************************************************************)
(* bot/message_handler.py: determine_seasons_to_request.  The request text *)
(* is the lower-cased query as a sequence of words; the pattern            *)
(* season[s]?\s*(\d+)(?:\s*[--]\s*(\d+))? is searched from the left.       *)
(* The result is None or a list; none tells them apart.                    *)
(***************************************************************************)
Numeral ==
    ("1" :> 1) @@ ("2" :> 2) @@ ("3" :> 3) @@ ("4" :> 4) @@ ("5" :> 5) @@ ("6" :> 6)

NumberWords == {w \in DOMAIN Numeral : Numeral[w] <= MaxSeasonNo}

SeasonWords == {"season", "seasons"}

KeywordWords == {"latest"}

QueryWords == {"show", "-"} \cup SeasonWords \cup KeywordWords \cup NumberWords

Queries == UNION {[1..n -> QueryWords] : n \in 0..MaxQueryLen}

\* list(range(a, b + 1))
Range(a, b) == IF b < a THEN <<>> ELSE [k \in 1..(b - a + 1) |-> a + k - 1]

Max(a, b) == IF a >= b THEN a ELSE b

\* re.search: the positions where the pattern matches; the leftmost is taken.
season_match(query) ==
    {i \in 1..(Len(query) - 1) : query[i] \in SeasonWords /\ query[i + 1] \in NumberWords}

\* group(2) of the match at position i, None when the range part is absent.
end_group(query, i) ==
    IF i + 3 <= Len(query) /\ query[i + 2] = "-" /\ query[i + 3] \in NumberWords
    THEN Numeral[query[i + 3]]
    ELSE None

has_keyword(query) == \E i \in DOMAIN query : query[i] \in KeywordWords

SeasonList(list) == [none |-> FALSE, list |-> list]

AllSeasons == [none |-> TRUE, list |-> <<>>]

\* The keyword branch without its test of the season count.
determine_seasons_to_request_keyword_unguarded(total_seasons, query) ==
    IF season_match(query) # {}
    THEN LET i == CHOOSE j \in season_match(query) : \A k \in season_match(query) : j <= k
             start_season == Numeral[query[i + 1]]
             end_season == IF end_group(query, i) # None THEN end_group(query, i)
                           ELSE start_season
         IN  SeasonList(Range(start_season, end_season))
    ELSE IF has_keyword(query)
    THEN SeasonList(Range(Max(1, total_seasons - 3), total_seasons))
    ELSE IF total_seasons >= 4
    THEN SeasonList(Range(Max(1, total_seasons - 3), total_seasons))
    ELSE AllSeasons

determine_seasons_to_request(total_seasons, query) ==
    IF season_match(query) # {}
    THEN LET i == CHOOSE j \in season_match(query) : \A k \in season_match(query) : j <= k
             start_season == Numeral[query[i + 1]]
             end_season == IF end_group(query, i) # None THEN end_group(query, i)
                           ELSE start_season
         IN  SeasonList(Range(start_season, end_season))
    ELSE IF has_keyword(query) /\ total_seasons >= 4
    THEN SeasonList(Range(Max(1, total_seasons - 3), total_seasons))
    ELSE IF total_seasons >= 4
    THEN SeasonList(Range(Max(1, total_seasons - 3), total_seasons))
    ELSE AllSeasons

\* OverseerrAPI.request_tv_show: the seasons put in the payload.  'if seasons'
\* leaves the key out for None and for the empty list, and Overseerr then
\* takes the request for all seasons.
request_tv_show_seasons(seasons) ==
    IF seasons.none \/ seasons.list = <<>> THEN AllSeasons ELSE seasons

(***************************************************************************)
(* The season derivation on its own (SpecSeasons): it is applied to every  *)
(* request text and every season count of the matched series.              *)
(***************************************************************************)
SeasonsProbe(query, total) ==
    [kind |-> "seasons", query |-> query, total |-> total,
     derived |-> FALSE, result |-> AllSeasons]

InitSeasons ==
    /\ Boot
    /\ probe \in {SeasonsProbe(query, total) : query \in Queries, total \in 0..MaxTotal}

seasons_derive ==
    /\ probe.kind = "seasons"
    /\ ~probe.derived
    /\ probe' = [probe EXCEPT !.derived = TRUE,
                              !.result = determine_seasons_to_request(probe.total, probe.query)]
    /\ UNCHANGED OtherThanProbe

NextSeasons == seasons_derive

SpecSeasons == InitSeasons /\ [][NextSeasons]_vars

\* The list holds exactly the seasons from..to, ascending.
Enumerates(list, from, to) ==
    /\ Len(list) = Cardinality(from..to)
    /\ \A k \in DOMAIN list : list[k] = from + k - 1

\* The text mentions seasons from..to: its first "season N" or "seasons N",
\* with to = N unless "- M" follows.
Mentions(query, from, to) ==
    \E i \in DOMAIN query :
        /\ i < Len(query) /\ query[i] \in SeasonWords /\ query[i + 1] \in NumberWords
        /\ \A j \in 1..(i - 1) : ~(query[j] \in SeasonWords /\ query[j + 1] \in NumberWords)
        /\ from = Numeral[query[i + 1]]
        /\ IF i + 3 <= Len(query) /\ query[i + 2] = "-" /\ query[i + 3] \in NumberWords
           THEN to = Numeral[query[i + 3]]
           ELSE to = from

MentionsSeasons(query) == \E from, to \in 1..MaxSeasonNo : Mentions(query, from, to)

\* C16: the derived list is [N..M] for an explicit mention; otherwise the
\* last min(4, T) seasons for a keyword; otherwise the last four for T >= 4;
\* otherwise empty.
C16_SeasonsFollowReference ==
    probe.kind = "seasons" /\ probe.derived
        => LET T == probe.total
               q == probe.query
               list == probe.result.list
           IN  /\ \A from, to \in 1..MaxSeasonNo :
                     Mentions(q, from, to) => Enumerates(list, from, to)
               /\ ~MentionsSeasons(q) /\ has_keyword(q)
                     => Enumerates(list, T - (IF T < 4 THEN T ELSE 4) + 1, T)
               /\ ~MentionsSeasons(q) /\ ~has_keyword(q) /\ T >= 4
                     => Enumerates(list, T - 3, T)
               /\ ~MentionsSeasons(q) /\ ~has_keyword(q) /\ T < 4
                     => list = <<>>

\* C16, as the code has it: the derived list is [N..M] for an explicit
\* mention; otherwise the last four seasons for T >= 4 and no list (all
\* seasons) for T < 4, with or without a keyword.
C16_SeasonsKeywordIgnored ==
    probe.kind = "seasons" /\ probe.derived
        => LET T == probe.total
               q == probe.query
               list == probe.result.list
           IN  /\ \A from, to \in 1..MaxSeasonNo :
                     Mentions(q, from, to)
                        => ~probe.result.none /\ Enumerates(list, from, to)
               /\ ~MentionsSeasons(q) /\ T >= 4
                     => ~probe.result.none /\ Enumerates(list, T - 3, T)
               /\ ~MentionsSeasons(q) /\ T < 4
                     => probe.result.none /\ list = <<>>

\* "show latest" on a series of three seasons derived no list.
C16_Witness ==
    /\ probe.kind = "seasons" /\ probe.derived
    /\ probe.query = <<"show", "latest">>
    /\ probe.total = 3
    /\ probe.result = AllSeasons

(***************************************************************************)
(* The admin commands (SpecAdmin)                                          *)
(***************************************************************************)
\* The users row but for its last_active.
Apart(row) == [row EXCEPT !.last_active = 0]

\* C17: an admin command handler runs only for an admin; an event of a user
\* who is no admin with an admin verb gets the permission-denied reply and
\* changes no users or media_requests row; no event of a sender who is no
\* admin creates or deactivates a user.
C17_AdminCommandsForAdminsOnly ==
    [][last'.handled =>
        LET u == last'.sender
            admin == u \in DOMAIN users /\ users[u].is_admin
        IN
        /\ last'.handler \in AdminCommands => admin
        /\ u \in DOMAIN users /\ ~admin /\ last'.verb \in AdminCommands
              => /\ last'.replies = <<send_response(u, "permission denied")>>
                 /\ users' = users
                 /\ requests' = requests
        /\ ~admin
              => /\ DOMAIN users' = DOMAIN users
                 /\ \A v \in DOMAIN users : users'[v].is_active = users[v].is_active]_vars

\* C17, as the code has it: the event gets the permission-denied reply when
\* it reaches the dispatch (no maintenance, the log and the last_active
\* write succeeded), and the one thing it may change is the last_active of
\* its sender.
C17_AdminCommandsGuarded ==
    [][last'.handled =>
        LET u == last'.sender
            admin == u \in DOMAIN users /\ users[u].is_admin
        IN
        /\ last'.handler \in AdminCommands => admin
        /\ u \in DOMAIN users /\ ~admin /\ last'.verb \in AdminCommands
              => /\ last'.handler = "none"
                 /\ last'.replies =
                        IF last'.raised # "none" THEN <<>>
                        ELSE IF maintenance THEN <<send_response(u, "maintenance")>>
                        ELSE <<send_response(u, "permission denied")>>
                 /\ DOMAIN users' = DOMAIN users
                 /\ \A v \in DOMAIN users :
                        /\ Apart(users'[v]) = Apart(users[v])
                        /\ v # u => users'[v] = users[v]
                 /\ requests' = requests
        /\ ~admin
              => /\ DOMAIN users' = DOMAIN users
                 /\ \A v \in DOMAIN users :
                        /\ users'[v].is_active = users[v].is_active
                        /\ users'[v].is_admin = users[v].is_admin]_vars

\* The standard user asked for a user to be added, some time after the
\* start, and was denied; there is no such user.
C17_Witness ==
    /\ last.handled /\ last.sender = UserPhone /\ last.verb = "adduser"
    /\ last.replies = <<send_response(UserPhone, "permission denied")>>
    /\ StrangerPhone \notin DOMAIN users
    /\ users[UserPhone].last_active = now /\ now > 0

(***************************************************************************)
(* Maintenance (SpecRouter)                                                *)
(***************************************************************************)
\* The event just handled had the effect that some event of the same sender
\* with the same verb has when the maintenance setting is off.
AsWithoutMaintenance ==
    \E sc \in RouterScenarios :
        /\ sc.e.sender = last'.sender
        /\ parse_command(sc.e.text)[1] = last'.verb
        /\ LET eff == handle_message(requests, users, FALSE, jobs, sc.e, sc.in, now) IN
           /\ requests' = eff.reqs /\ users' = eff.users /\ jobs' = eff.jobs
           /\ last'.replies = eff.replies /\ last'.handler = eff.handler
           /\ last'.catalog = eff.catalog /\ last'.fulfil = eff.fulfil
           /\ last'.raised = eff.raised

\* No handler ran, no request was created and no catalog or fulfillment
\* call was made for the event just handled.
NothingElse ==
    /\ last'.handler = "none"
    /\ requests' = requests /\ last'.added = 0
    /\ last'.catalog = 0 /\ last'.fulfil = 0
    /\ jobs' = jobs

\* C18: while maintenance is set, every event of a user who is no admin
\* gets the maintenance notice and nothing else; the events of admins are
\* dispatched as usual.
C18_MaintenanceNoticeOnly ==
    [][last'.handled /\ maintenance /\ last'.sender \in DOMAIN users =>
        IF users[last'.sender].is_admin
        THEN AsWithoutMaintenance
        ELSE /\ NothingElse
             /\ last'.replies = <<send_response(last'.sender, "maintenance")>>]_vars

\* C18, as the code has it: the notice is sent for an event with text whose
\* log and last_active writes succeeded; an event without text, or one for
\* which a write raised, gets no reply.
C18_MaintenanceNoticeForText ==
    [][last'.handled /\ maintenance /\ last'.sender \in DOMAIN users =>
        IF users[last'.sender].is_admin
        THEN AsWithoutMaintenance
        ELSE /\ NothingElse
             /\ last'.replies =
                    IF last'.empty \/ last'.raised # "none" THEN <<>>
                    ELSE <<send_response(last'.sender, "maintenance")>>
             /\ last'.alert <=> last'.raised # "none"]_vars

\* The standard user asked for a title during maintenance and got the
\* notice.
C18_Witness ==
    /\ maintenance /\ last.handled
    /\ last.sender = UserPhone /\ last.verb = "request"
    /\ last.replies = <<send_response(UserPhone, "maintenance")>>
    /\ last.catalog = 0 /\ requests = <<>>

(***************************************************************************)
(* Failed submissions (SpecSweep)                                          *)
(***************************************************************************)
\* C19: when the submission for a new request fails and the store takes the
\* write, the request is failed with the error text of the client on it, the
\* last reply to the sender carries that text, and no one-shot check is
\* scheduled; the text of a conflict is not the text of another failure; no
\* poll is made for a failed request and a failed request is not written
\* again.
C19_FailedSubmissionRecorded ==
    [][/\ last'.handled /\ last'.sub \in {"conflict", "error"} /\ last'.raised = "none"
          => /\ last'.added = 1 /\ last'.created = {Len(requests')}
             /\ LET r == requests'[Len(requests')]
                    detail == IF last'.sub = "conflict" THEN "already requested"
                              ELSE "failed to request"
                IN
                /\ r.status = "failed"
                /\ r.error_message = detail
                /\ r.overseerr_request_id = None
                /\ last'.replies[Len(last'.replies)]
                      = [to |-> last'.sender, kind |-> "request failed: " \o detail]
                /\ Count(last'.replies, "confirmation") = 0
             /\ jobs' = jobs
       /\ sent'.step = "poll" => requests[sent'.id].status # "failed"
       /\ \A i \in DOMAIN requests :
             requests[i].status = "failed" => requests'[i] = requests[i]]_vars

\* A submission met the conflict of Overseerr; the request is failed with
\* that text while a sweep is under way that has not taken it up.
C19_Witness ==
    /\ sweep.todo # {}
    /\ \E i \in DOMAIN requests :
         /\ requests[i].status = "failed"
         /\ requests[i].error_message = "already requested"
         /\ requests[i].overseerr_request_id = None
         /\ jobs[i] = {}
         /\ \A x \in sweep.todo : x.id # i

(***************************************************************************)
(* Errors within a sweep (SpecSweep)                                       *)
(***************************************************************************)
\* The sweep step just taken met an error for one request: Overseerr gave
\* no answer, or the store raised on the write.
SweepError ==
    /\ sent'.by = "sweep"
    /\ \/ sent'.step = "poll" /\ sent'.answer = None
       \/ sent'.step = "error"

\* C20: an error for one request within a sweep leaves the requests that
\* the sweep has still to poll in its list and the record of the failing
\* request as it was; the failing request is among the requests that the
\* next sweep takes up, and a sweep takes up every non-terminal request and
\* drops a request from its list only when it comes to it.
C20_SweepSurvivesError ==
    [][/\ SweepError
          => /\ requests' = requests
             /\ \A y \in sweep.todo : y.id # sent'.id => y \in sweep'.todo
             /\ sweep'.cur = NoCur
             /\ sent'.id \in get_pending_requests(requests')
       /\ sweep.todo = {} /\ sweep'.todo # {}
          => {y.id : y \in sweep'.todo} = get_pending_requests(requests)
       /\ sweep.todo # {}
          => /\ sweep'.todo \subseteq sweep.todo
             /\ Cardinality(sweep.todo \ sweep'.todo) <= 1]_vars

\* The store raised on the write for one request while another request of
\* the same sweep is still to be polled.
C20_Witness ==
    /\ sent.by = "sweep" /\ sent.step = "error"
    /\ sweep.todo # {}
    /\ \A y \in sweep.todo : y.id # sent.id
    /\ requests[sent.id].status = "approved"

(***************************************************************************)
(* bot/bot.py: format_status_message.  The text is built as the code       *)
(* builds it, without the emoji and the markdown; a Python function that   *)
(* ends without a return gives None, which is no text.                     *)
(***************************************************************************)
Verbosities == {"verbose", "simple", "casual"}

\* A status that no tier and no table of the program knows.
UnknownStatus == "on_hold"

FormattedStatuses == RequestStatus \cup {UnknownStatus}

Titles == {"Matrix", "Dune"}

\* status.replace('_', ' ').title()
TitleCase ==
    ("pending" :> "Pending") @@ ("approved" :> "Approved")
    @@ ("downloading" :> "Downloading") @@ ("completed" :> "Completed")
    @@ ("declined" :> "Declined") @@ ("failed" :> "Failed")
    @@ ("on_hold" :> "On Hold")

Pad2(n) == IF n < 10 THEN "0" \o ToString(n) ELSE ToString(n)

\* datetime.utcnow().strftime('%H:%M') at minute t.
HourMinute(t) == Pad2((t \div 60) % 24) \o ":" \o Pad2(t % 60)

TextOf(text) == [none |-> FALSE, text |-> text]

NoText == [none |-> TRUE, text |-> ""]

GenericLine(title, status) == TextOf("Status update: " \o title \o " - " \o status)

\* A formatter without the return after the tiers.
format_status_message_without_fallback(verbosity_level, title, status, t) ==
    IF verbosity_level = "casual"
    THEN CASE status = "downloading" -> TextOf("'" \o title \o "' is downloadin' now!")
           [] status = "completed" -> TextOf("'" \o title \o "' is done downloadin'! Enjoy!")
           [] status = "declined" -> TextOf("'" \o title \o "' got declined, sorry!")
           [] status = "failed" -> TextOf("'" \o title \o "' failed to download.")
           [] OTHER -> NoText
    ELSE IF verbosity_level = "simple"
    THEN CASE status = "downloading" -> TextOf(title \o " - Download started")
           [] status = "completed" -> TextOf(title \o " - Download completed!")
           [] status = "declined" -> TextOf(title \o " - Request declined")
           [] status = "failed" -> TextOf(title \o " - Download failed")
           [] OTHER -> NoText
    ELSE LET message == "Status Update / Title: " \o title
                            \o " / Status: " \o TitleCase[status]
                            \o " / Updated: " \o HourMinute(t)
         IN  CASE status = "completed" -> TextOf(message \o " / Ready to watch!")
               [] status = "downloading" -> TextOf(message \o " / Download in progress...")
               [] OTHER -> TextOf(message)

format_status_message(verbosity_level, title, status, t) ==
    IF verbosity_level = "casual"
    THEN CASE status = "downloading" -> TextOf("'" \o title \o "' is downloadin' now!")
           [] status = "completed" -> TextOf("'" \o title \o "' is done downloadin'! Enjoy!")
           [] status = "declined" -> TextOf("'" \o title \o "' got declined, sorry!")
           [] status = "failed" -> TextOf("'" \o title \o "' failed to download.")
           [] OTHER -> GenericLine(title, status)
    ELSE IF verbosity_level = "simple"
    THEN CASE status = "downloading" -> TextOf(title \o " - Download started")
           [] status = "completed" -> TextOf(title \o " - Download completed!")
           [] status = "declined" -> TextOf(title \o " - Request declined")
           [] status = "failed" -> TextOf(title \o " - Download failed")
           [] OTHER -> GenericLine(title, status)
    ELSE LET message == "Status Update / Title: " \o title
                            \o " / Status: " \o TitleCase[status]
                            \o " / Updated: " \o HourMinute(t)
         IN  CASE status = "completed" -> TextOf(message \o " / Ready to watch!")
               [] status = "downloading" -> TextOf(message \o " / Download in progress...")
               [] OTHER -> TextOf(message)

(***************************************************************************)
(* The formatter on its own (SpecFormat): it is applied for every          *)
(* verbosity, title, status and time of the update.                        *)
(***************************************************************************)
FormatProbe(verbosity_level, title, status, t) ==
    [kind |-> "format", verbosity |-> verbosity_level, title |-> title,
     status |-> status, now |-> t, formatted |-> FALSE, result |-> NoText]

InitFormat ==
    /\ Boot
    /\ probe \in {FormatProbe(v, title, status, t) :
                    v \in Verbosities, title \in Titles,
                    status \in FormattedStatuses, t \in 0..MaxTime}

format_apply ==
    /\ probe.kind = "format"
    /\ ~probe.formatted
    /\ probe' = [probe EXCEPT !.formatted = TRUE,
                              !.result = format_status_message(probe.verbosity, probe.title,
                                                               probe.status, probe.now)]
    /\ UNCHANGED OtherThanProbe

NextFormat == format_apply

SpecFormat == InitFormat /\ [][NextFormat]_vars

\* The statuses for which the casual and the simple tier have a phrasing of
\* their own; the verbose tier has its form for every status.
Phrased == {"downloading", "completed", "declined", "failed"}

\* C21: the formatter gives a text for every verbosity and every status,
\* and for a status that the tier of the user has no phrasing for it gives
\* the line made of the title and the status.
C21_FormatterTotal ==
    probe.kind = "format" /\ probe.formatted
        => /\ ~probe.result.none
           /\ probe.result.text # ""
           /\ probe.verbosity \in {"casual", "simple"} /\ probe.status \notin Phrased
                => probe.result.text
                      = "Status update: " \o probe.title \o " - " \o probe.status
           /\ probe.verbosity = "verbose" \/ probe.status \in Phrased
                => probe.result.text
                      # "Status update: " \o probe.title \o " - " \o probe.status

\* The status that no tier knows, for a user of the casual tier.
C21_Witness ==
    /\ probe.kind = "format" /\ probe.formatted
    /\ probe.verbosity = "casual" /\ probe.status = UnknownStatus
    /\ probe.result = TextOf("Status update: Dune - on_hold")

(***************************************************************************)
(* Stopping (SpecStop)                                                     *)
(***************************************************************************)
\* The step is a completed stop().
Stopped == is_running /\ ~is_running'

\* C22: stop() does not complete while a sweep or a one-shot check has read
\* a request and has its new status still to persist.
C22_StopWaitsForJobs ==
    [][Stopped => sweep.cur = NoCur /\ \A i \in JobIds : checks[i] = NoCur]_vars

\* The step took a pending one-shot check of request i out of the job store
\* and ran it: the check is gone and the step is no stop and no call that
\* put another check in its place.
Fired(i) ==
    /\ \E due \in jobs[i] : due <= now /\ due \notin jobs'[i]
    /\ ~Stopped
    /\ sent'.step \notin {"schedule", "write"}

\* C23: a completed stop() leaves the scheduler stopped with no pending
\* one-shot check and the receiver ended; a one-shot check is run only by a
\* running scheduler and an event is handled only by a running receiver.
C23_NothingRunsAfterStop ==
    [][/\ Stopped
          => /\ ~scheduler_running'
             /\ \A i \in JobIds : jobs'[i] = {}
             /\ receiver' = "idle"
       /\ \A i \in JobIds : Fired(i) => scheduler_running
       /\ last'.handled => receiver = "running" /\ is_running]_vars

\* The bot was stopped while a one-shot check was pending for a request;
\* the check is gone and the receiver has ended.
C23_Witness ==
    /\ sent.by = "stop" /\ sent.count > 0
    /\ ~is_running /\ ~scheduler_running
    /\ receiver = "idle" /\ receiver_exit = "stop"
    /\ \A i \in JobIds : jobs[i] = {}
    /\ requests # <<>>

(***************************************************************************)
(* The cancel command and the registered verbs (SpecCancel)                *)
(***************************************************************************)
\* The event just handled reached the dispatch with a registered verb that
\* its sender may use.
Dispatched ==
    /\ last'.handled /\ last'.known
    /\ ~(maintenance /\ ~users[last'.sender].is_admin)
    /\ \/ last'.verb \in Commands
       \/ last'.verb \in AdminCommands /\ users[last'.sender].is_admin

\* C24: every registered verb has a handler that the dispatch invokes, and
\* a cancel of a stored request by its owner moves the request to declined
\* and leaves the pending one-shot checks and the sweep as they are.
C24_CancelIsTransition ==
    [][Dispatched
          => /\ last'.handler = last'.verb
             /\ last'.raised = "none"
             /\ (/\ last'.verb = "cancel"
                 /\ 1 \in DOMAIN requests
                 /\ requests[1].user_id = last'.sender)
                   => /\ requests'[1].status = "declined"
                      /\ jobs' = jobs
                      /\ sweep' = sweep]_vars

(***************************************************************************)
(* The request flow (SpecRouter)                                           *)
(***************************************************************************)
\* C25: a request is created only when the quota check passed, the search
\* gave a first match and that match is not available; when the search gave
\* nothing or the first match is available the sender is told so, no request
\* is created and nothing is submitted.
C25_RequestOnlyAfterChecks ==
    [][last'.handled =>
        /\ requests' # requests
              => /\ last'.quota /\ last'.catalog = 2
                 /\ last'.match # "none" /\ ~last'.avail
                 /\ last'.added = 1
        /\ last'.catalog >= 1 /\ last'.match = "none"
              => /\ requests' = requests /\ last'.fulfil = 0
                 /\ last'.replies[Len(last'.replies)]
                       = send_response(last'.sender, "no results")
        /\ last'.avail
              => /\ requests' = requests /\ last'.fulfil = 0
                 /\ last'.replies[Len(last'.replies)]
                       = send_response(last'.sender, "already available")]_vars

\* The standard user asked for a title that is already available.
C25_Witness ==
    /\ last.handled /\ last.sender = UserPhone /\ last.quota
    /\ last.match = "tv" /\ last.avail
    /\ last.added = 0 /\ last.fulfil = 0
    /\ Count(last.replies, "already available") = 1

(***************************************************************************)
(* Text that is no command (SpecNatural)                                   *)
(***************************************************************************)
\* The event just handled reached the dispatch with a verb that is in
\* neither table.
Unmatched ==
    /\ last'.handled /\ last'.known /\ ~last'.empty
    /\ ~(maintenance /\ ~users[last'.sender].is_admin)
    /\ last'.verb \notin Commands \cup AdminCommands

\* The event was answered with the unknown-command notice alone.
AnsweredUnknown ==
    /\ last'.replies = <<send_response(last'.sender, "unknown command")>>
    /\ last'.catalog = 0
    /\ requests' = requests

\* The text went into the request flow: the quota was looked at and, when it
\* allowed, the catalog was searched.
TakenAsRequest ==
    /\ last'.handler = "natural"
    /\ Count(last'.replies, "unknown command") = 0
    /\ \/ last'.catalog >= 1
       \/ last'.replies = <<send_response(last'.sender, "limit reached")>>

\* C26: text with a slash in front, or whose first word begins with a
\* standard or an admin verb, gets the unknown-command notice and no search
\* and no request; any other text is handled as a request.
C26_UnknownCommandOrRequest ==
    [][Unmatched =>
        IF last'.word.slash \/ last'.word.stem \in Commands \cup AdminCommands
        THEN AnsweredUnknown
        ELSE TakenAsRequest]_vars

(***************************************************************************)
(* The last_active write (SpecRouter)                                      *)
(***************************************************************************)
\* C27: when the write of last_active raises for an event with text of a
\* known user outside maintenance, the event is dispatched all the same: a
\* help gets its help reply.
C27_TouchFailureNotFatal ==
    [][(/\ last'.handled /\ last'.known /\ ~last'.empty
        /\ ~maintenance
        /\ last'.raised = "touch"
        /\ last'.verb = "help")
          => /\ last'.handler = "help"
             /\ last'.replies = <<send_response(last'.sender, "help")>>]_vars

(***************************************************************************)
(* The poll of one request (SpecPoll)                                      *)
(***************************************************************************)
\* The write a poll has decided on and not yet made.
PendingWrite(by, i) == IF by = "sweep" THEN sweep'.cur ELSE checks'[i]

\* C28: Overseerr is asked only for a request with a correlation id and the
\* asking changes no row; when the mapped status is the stored one no write
\* follows, when it differs the write of exactly that status follows; a
\* write persists the status the poll mapped, which is not the stored one.
C28_PollMatchesReference ==
    [][/\ sent'.step = "poll" =>
            /\ HasId(sent'.id)
            /\ requests' = requests
            /\ (sent'.answer # None /\ sent'.status = requests[sent'.id].status)
                  => PendingWrite(sent'.by, sent'.id) = NoCur
            /\ (sent'.answer # None /\ sent'.status # requests[sent'.id].status)
                  => PendingWrite(sent'.by, sent'.id).new = sent'.status
       /\ sent'.step = "write" =>
            /\ requests'[sent'.id].status = sent'.status
            /\ requests[sent'.id].status # sent'.status]_vars

C30_CollaboratorErrorReported ==
    [][/\ (last'.handled /\ last'.search = "error")
            => /\ Count(last'.replies, "try again") = 1
               /\ Count(last'.replies, "no results") = 0
               /\ last'.alert
       /\ (\/ sent'.step = "error"
           \/ sent'.step = "poll" /\ sent'.answer = None)
            => ~last'.alert]_vars

(***************************************************************************)
(* A status query that does not return (SpecHang)                          *)
(***************************************************************************)
\* The status query of the sweep for a request other than j is hanging.
HungForOther(j) == sweep.cur.new = Hanging /\ sweep.cur.id # j

Pollable(j) ==
    /\ j \in DOMAIN requests
    /\ HasId(j)
    /\ requests[j].status \in NonTerminal

PolledBySweep(j) == sent.by = "sweep" /\ sent.step = "poll" /\ sent.id = j

\* The grace period of j does not end within the time modelled.
GraceOutlastsClock(j) == j \in DOMAIN requests /\ sweep_skips(requests[j], MaxTime)

\* C31: while the status query of the sweep for one request hangs, every
\* other request that is not terminal and has a correlation id is eventually
\* polled by the sweep (unless the sweep skips it as pending and young for
\* as long as the clock runs).
C31_HungQueryStallsNothing ==
    \A j \in JobIds :
        (HungForOther(j) /\ Pollable(j)) ~> (PolledBySweep(j) \/ GraceOutlastsClock(j))

(***************************************************************************)
(* The receiver thread ends (SpecIngest)                                   *)
(***************************************************************************)
\* C32: when the receiver thread has ended because the daemon died or the
\* read from it raised, the bot eventually is not running any more.
C32_TransportFailureStopsBot ==
    (receiver = "exited" /\ receiver_exit \in {"daemon died", "read error"}) ~> ~is_running

(***************************************************************************)
(* Removed users (SpecAdmin)                                               *)
(***************************************************************************)
\* The sender of the event handled in this step has a row that removeuser
\* has made inactive.
FromRemovedUser ==
    /\ last'.handled /\ ~last'.empty
    /\ last'.sender \in DOMAIN users
    /\ ~users[last'.sender].is_active

\* C33: an event from a removed user is rejected like one from an unknown
\* sender: the only reply is the rejection, no handler runs, no request is
\* created.
C33_RemovedUserRejected ==
    [][(FromRemovedUser /\ last'.raised = "none")
          => /\ last'.replies = <<send_response(last'.sender, "not authorized")>>
             /\ last'.handler = "none"
             /\ last'.added = 0]_vars

(***************************************************************************)
(* Notifications of status changes (SpecPoll)                              *)
(***************************************************************************)
\* C34: a status change of a request whose owner has auto_notifications off
\* sends the owner no notification, whether the sweep or a one-shot check
\* persisted it.
C34_NoNotificationWhenOff ==
    [][(/\ sent'.step = "write"
        /\ ~users[requests[sent'.id].user_id].auto_notifications)
          => sent'.count = 0]_vars

\* C35: a notification goes with a change of the stored status, so each
\* change notifies the owner at most once: a write of the status that is
\* already stored, by the second of two concurrent polls, sends nothing.
C35_OneNotificationPerChange ==
    [][(sent'.step = "write" /\ sent'.count > 0)
          => requests'[sent'.id].status # requests[sent'.id].status]_vars

(***************************************************************************)
(* The sweep follows the fulfillment service (SpecLive)                    *)
(***************************************************************************)
\* Request j is in progress and Overseerr knows it.
Tracked(j) ==
    /\ j \in DOMAIN requests
    /\ HasId(j)
    /\ requests[j].status \in {"approved", "downloading"}

Reached(j, status) ==
    /\ j \in DOMAIN requests
    /\ requests[j].status = status

\* C36: a request that is approved or downloading while its external status
\* is available (and stays so) eventually is completed, and one whose
\* external status is declined eventually is declined (unless a write of an
\* older answer has made it pending so late that its grace period outlasts
\* the clock).
C36_ExternalOutcomeReached ==
    \A j \in JobIds :
      /\ (Tracked(j) /\ probe.code = 5) ~> (Reached(j, "completed") \/ GraceOutlastsClock(j))
      /\ (Tracked(j) /\ probe.code = 3) ~> (Reached(j, "declined") \/ GraceOutlastsClock(j))

\* The sweep has just completed a request that was in progress when the
\* external status was available.
C36_Witness ==
    /\ probe.code = 5
    /\ sent.by = "sweep" /\ sent.step = "write"
    /\ Reached(sent.id, "completed")
    /\ ~GraceOutlastsClock(sent.id)

(***************************************************************************)
(* Correlation ids of requests in progress (SpecSubmit)                    *)
(***************************************************************************)
\* C37: every request that is approved, downloading or completed has a
\* correlation id.
C37_InProgressHasId ==
    \A i \in DOMAIN requests :
        requests[i].status \in {"approved", "downloading", "completed"} => HasId(i)

(***************************************************************************)
(* The request created by an event (SpecRouter)                            *)
(***************************************************************************)
\* C38: when the handling of an event has ended, by return or through the
\* except clause, every request it created is approved or failed.
C38_CreatedRequestSettled ==
    [][last'.handled =>
          \A i \in last'.created : requests'[i].status \in {"approved", "failed"}]_vars

(***************************************************************************)
(* Range of the derived seasons (SpecSeasons)                              *)
(***************************************************************************)
\* C39: every season of the derived list lies in 1..T; and for a text with
\* an explicit mention the list is not empty, ascends, and is what is sent
\* to Overseerr (the request is not one for all seasons).
C39_SeasonsInRange ==
    probe.kind = "seasons" /\ probe.derived
        => LET T == probe.total
               q == probe.query
               list == probe.result.list
           IN  /\ \A k \in DOMAIN list : list[k] \in 1..T
               /\ MentionsSeasons(q)
                     => /\ ~probe.result.none
                        /\ list # <<>>
                        /\ \A k \in 1..(Len(list) - 1) : list[k] < list[k + 1]
                        /\ request_tv_show_seasons(probe.result) = probe.result

(***************************************************************************)
(* The scheduler of a bot that is not running (SpecStop)                   *)
(***************************************************************************)
\* C40: whenever the bot is not running its scheduler is not running either,
\* after a start that failed to listen as after a stop.
C40_SchedulerStopsWithBot == ~is_running => ~scheduler_running

====
